---- MODULE Spec2Model ----
(***************************************************************************)
(* Model of src/app.py: a Streamlit script that forwards a text, image or  *)
(* audio input to a webhook with one HTTP POST and renders the JSON reply  *)
(* as per-model result cards.                                              *)
(*                                                                         *)
(* Three specifications are defined:                                       *)
(*   Spec      the script as a whole: widget events and the run logic;     *)
(*   SpecNorm  normalize_response and the rendering loop, applied to a     *)
(*             bounded universe of parsed JSON replies;                    *)
(*   SpecUrl   image_to_data_url, applied to a bounded set of files.       *)
(***************************************************************************)
EXTENDS Integers, Sequences, FiniteSets, TLC

VARIABLES
    mdl,            \* st.session_state["mdl_<id>"]: the model checkboxes
    input_type,     \* the "Input Type" radio
    prompt_text,    \* the "Prompt (optional)" text area
    sidebar_upload, \* the file uploader widget's value (None or a file)
    pc,             \* where the script (or the function under test) stands
    posts,          \* the requests.post calls of the current run, in order
    resp,           \* the response the run logic handles (None before it)
    status,         \* the status banner
    results_box,    \* the results placeholder
    warnings,       \* st.warning calls of the current run
    normCalls,      \* how often normalize_response was invoked in the run
    resp_json,      \* the argument of normalize_response
    items,          \* the value normalize_response returned
    rendered,       \* the texts handed to st.markdown by the rendering loop
    data_url        \* the value image_to_data_url returned

vars == <<mdl, input_type, prompt_text, sidebar_upload, pc, posts, resp, status,
          results_box, warnings, normCalls, resp_json, items, rendered, data_url>>

formVars == <<mdl, input_type, prompt_text, sidebar_upload>>

runVars == <<posts, resp, status, results_box, warnings, normCalls, resp_json,
             items, rendered, data_url>>

None == [t |-> "None"]

(***************************************************************************)
(* Bounds of the input universes.                                          *)
(***************************************************************************)
MaxEntries == 2   \* entries of a generated `responses` list or mapping
MaxFileLen == 2   \* bytes of a generated file

(***************************************************************************)
(* Python / JSON values.  A value is a record tagged by its type.  A       *)
(* string's content is a literal ([lit]), the result of Python's str() on  *)
(* a list or dict ([repr]) or the result of json.dumps ([dumps]).          *)
(***************************************************************************)
JNull == [t |-> "null"]
JBool(b) == [t |-> "bool", b |-> b]
JNum(n) == [t |-> "num", n |-> n]
JStr(s) == [t |-> "str", s |-> s]
JArr(a) == [t |-> "arr", a |-> a]
JObj(o) == [t |-> "obj", o |-> o]
KV(k, v) == [k |-> k, v |-> v]

Lit(s) == [lit |-> s]
PyRepr(v) == [repr |-> v]
Dumps(v) == [dumps |-> v, indent |-> 2]

IsDict(v) == v.t = "obj"
IsList(v) == v.t = "arr"
IsStr(v) == v.t = "str"

DigitStr == <<"0", "1", "2", "3", "4", "5", "6", "7", "8", "9">>

\* str(x)
PyStr(v) ==
    CASE v.t = "null" -> JStr(Lit("None"))
      [] v.t = "bool" -> JStr(Lit(IF v.b THEN "True" ELSE "False"))
      [] v.t = "num"  -> JStr(Lit(DigitStr[v.n + 1]))
      [] v.t = "str"  -> v
      [] OTHER        -> JStr(PyRepr(v))

\* json.dumps(x, indent=2)
JsonDumps(v) ==
    CASE v.t = "null" -> JStr(Lit("null"))
      [] v.t = "bool" -> JStr(Lit(IF v.b THEN "true" ELSE "false"))
      [] v.t = "num"  -> JStr(Lit(DigitStr[v.n + 1]))
      [] OTHER        -> JStr(Dumps(v))

\* Python truthiness, as `or` and `if` test it
Truthy(v) ==
    CASE v.t = "null" -> FALSE
      [] v.t = "bool" -> v.b
      [] v.t = "num"  -> v.n # 0
      [] v.t = "str"  -> v.s # Lit("")
      [] v.t = "arr"  -> Len(v.a) > 0
      [] v.t = "obj"  -> Len(v.o) > 0
      [] OTHER        -> TRUE

\* a or b
PyOr(a, b) == IF Truthy(a) THEN a ELSE b

\* key in d
HasKey(d, key) == \E i \in 1..Len(d.o) : d.o[i].k = key

\* d.get(key, default)
DictGet(d, key, default) ==
    IF HasKey(d, key)
    THEN d.o[CHOOSE i \in 1..Len(d.o) : d.o[i].k = key].v
    ELSE default

ResultRecord(model, response, latencyMs) ==
    JObj(<<KV("model", JStr(Lit(model))), KV("response", response),
           KV("latencyMs", latencyMs)>>)

(***************************************************************************)
(* normalize_response (lines 156-172)                                      *)
(***************************************************************************)
\* v.get("response") or v.get("text") or str(v)
EntryResponse(v) ==
    PyOr(DictGet(v, "response", JNull), PyOr(DictGet(v, "text", JNull), PyStr(v)))

\* v.get("latencyMs", v.get("latency_ms", 0))
EntryLatency(v) ==
    DictGet(v, "latencyMs", DictGet(v, "latency_ms", JNum(0)))

\* one iteration of the loop of lines 166-170
EntryRecord(k, v) ==
    IF IsDict(v)
    THEN ResultRecord(k, EntryResponse(v), EntryLatency(v))
    ELSE ResultRecord(k, PyStr(v), JNum(0))

normalize_response(r_json) ==
    IF ~IsDict(r_json)
    THEN <<ResultRecord("result", PyStr(r_json), JNum(0))>>
    ELSE LET r == DictGet(r_json, "responses", JNull) IN
         IF HasKey(r_json, "responses") /\ IsList(r) THEN r.a
         ELSE IF HasKey(r_json, "responses") /\ IsDict(r)
         THEN [i \in 1..Len(r.o) |-> EntryRecord(r.o[i].k, r.o[i].v)]
         ELSE <<ResultRecord("result", JsonDumps(r_json), JNum(0))>>

(***************************************************************************)
(* The rendering loop of the run logic (lines 234-251).  `it.get` raises   *)
(* AttributeError on an item that is no dict; the items before it have     *)
(* been handed to st.markdown by then.                                     *)
(***************************************************************************)
\* lines 239-240 without the isinstance test's coercion
DisplayTextRaw(it) == DictGet(it, "response", JStr(Lit("")))

\* lines 236, 239-240
DisplayText(it) ==
    LET text == DictGet(it, "response", JStr(Lit(""))) IN
    IF ~IsStr(text) THEN JsonDumps(text) ELSE text

\* lines 235, 237
Card(it) ==
    [model |-> DictGet(it, "model", JStr(Lit("unknown"))),
     lat   |-> DictGet(it, "latencyMs", JNum(0))]

FirstNonDict(its) ==
    IF \E i \in 1..Len(its) : ~IsDict(its[i])
    THEN CHOOSE i \in 1..Len(its) :
            /\ ~IsDict(its[i])
            /\ \A j \in 1..(i - 1) : IsDict(its[j])
    ELSE Len(its) + 1

RenderItems(its) ==
    LET n == FirstNonDict(its) - 1 IN
    [texts  |-> [i \in 1..n |-> DisplayText(its[i])],
     cards  |-> [i \in 1..n |-> Card(its[i])],
     raised |-> n < Len(its)]

(***************************************************************************)
(* The universe of parsed JSON replies normalize_response is applied to.   *)
(***************************************************************************)
SmallObj == JObj(<<KV("a", JNum(1))>>)

Scalars ==
    {JNull, JBool(TRUE), JBool(FALSE), JNum(0), JNum(5),
     JStr(Lit("")), JStr(Lit("plain string"))}

\* the fields an entry of a `responses` mapping may carry, each possibly absent
ResponseFields ==
    {<<>>} \cup
    {<<KV("response", v)>> :
        v \in {JStr(Lit("")), JStr(Lit("x")), JNull, JNum(0), JBool(FALSE),
               JNum(7), SmallObj, JArr(<<>>)}}

TextFields ==
    {<<>>} \cup
    {<<KV("text", v)>> : v \in {JStr(Lit("")), JStr(Lit("hi")), JNum(5)}}

LatencyFields ==
    {<<>>,
     <<KV("latencyMs", JNum(5))>>,
     <<KV("latency_ms", JNum(9))>>,
     <<KV("latencyMs", JNum(5)), KV("latency_ms", JNum(9))>>,
     <<KV("latencyMs", JNull)>>,
     <<KV("latency_ms", JNum(9)), KV("latencyMs", JNull)>>}

EntryVals ==
    {JObj(r \o x \o l) : r \in ResponseFields, x \in TextFields, l \in LatencyFields}
    \cup {JStr(Lit("plain string")), JNum(7), JNull, JArr(<<JNum(1)>>)}

\* the entries after the first one of a generated mapping
MoreEntryVals ==
    {JObj(<<KV("text", JStr(Lit("hi")))>>),
     JObj(<<KV("response", JStr(Lit(""))), KV("text", JStr(Lit("")))>>),
     JObj(<<KV("response", SmallObj), KV("latencyMs", JNum(5))>>),
     JNum(7)}

ListItems ==
    {ResultRecord("a", JStr(Lit("x")), JNum(5)),
     ResultRecord("b", SmallObj, JNum(0)),
     JObj(<<KV("model", JStr(Lit("c")))>>),
     JStr(Lit("plain string")),
     JNum(7)}

ModelKeys == <<"gpt4o", "whisper", "m3", "m4", "m5", "m6">>

RECURSIVE SeqsUpTo(_, _)
\* the sequences over S of length at most n
SeqsUpTo(S, n) ==
    IF n = 0 THEN {<<>>}
    ELSE LET shorter == SeqsUpTo(S, n - 1) IN
         shorter \cup {Append(s, x) : s \in {q \in shorter : Len(q) = n - 1}, x \in S}

\* mappings of at most MaxEntries entries, keyed in order by ModelKeys
Mappings ==
    {<<>>} \cup
    {<<KV(ModelKeys[1], v)>> \o [i \in 1..Len(more) |-> KV(ModelKeys[i + 1], more[i])] :
        v \in EntryVals, more \in SeqsUpTo(MoreEntryVals, MaxEntries - 1)}

Replies ==
    Scalars
    \cup {JArr(<<>>), JArr(<<JNum(1)>>)}
    \cup {JObj(<<>>), JObj(<<KV("foo", JStr(Lit("bar")))>>)}
    \cup {JObj(<<KV("responses", v)>>) : v \in {JNull, JNum(3), JStr(Lit("x"))}}
    \cup {JObj(<<KV("responses", JArr(a))>>) : a \in SeqsUpTo(ListItems, MaxEntries)}
    \cup {JObj(<<KV("ok", JBool(TRUE)), KV("responses", JObj(m))>>) : m \in Mappings}

(***************************************************************************)
(* SpecNorm: normalize_response, then the rendering loop, on every reply.  *)
(***************************************************************************)
DefaultChecked == [m \in {"gpt4o", "gpt4o-mini", "whisper", "gpt4o-vision"} |-> m = "gpt4o"]

\* the status placeholder's content
Banner(kind) == [kind |-> kind]

IdleRun ==
    /\ posts = <<>>
    /\ resp = None
    /\ status = Banner("idle")
    /\ results_box = [kind |-> "empty"]
    /\ warnings = <<>>
    /\ normCalls = 0
    /\ items = <<>>
    /\ rendered = <<>>
    /\ data_url = <<>>

InitNorm ==
    /\ mdl = DefaultChecked
    /\ input_type = "text"
    /\ prompt_text = <<>>
    /\ sidebar_upload = None
    /\ pc = "reply"
    /\ resp_json \in Replies
    /\ IdleRun

Normalize ==
    /\ pc = "reply"
    /\ items' = normalize_response(resp_json)
    /\ normCalls' = normCalls + 1
    /\ pc' = "normalized"
    /\ UNCHANGED <<formVars, posts, resp, status, results_box, warnings, resp_json,
                   rendered, data_url>>

Render ==
    /\ pc = "normalized"
    /\ LET out == RenderItems(items) IN
       /\ rendered' = out.texts
       /\ status' = IF out.raised THEN Banner("Request failed") ELSE Banner("Success")
       /\ results_box' = IF out.raised
                         THEN [kind |-> "text", text |-> [exc |-> "AttributeError"]]
                         ELSE [kind |-> "html", cards |-> out.cards]
    /\ pc' = "rendered"
    /\ UNCHANGED <<formVars, posts, resp, warnings, normCalls, resp_json, items, data_url>>

NextNorm == Normalize \/ Render

SpecNorm == InitNorm /\ [][NextNorm]_vars

(***************************************************************************)
(* Properties of normalize_response and the rendering loop (SpecNorm).     *)
(***************************************************************************)
Normalized == normCalls > 0

\* C4: for every parsed reply, of any shape, normalize_response returns a
\* sequence holding at least one record.
C4_AtLeastOneRecord == Normalized => Len(items) >= 1

ResponsesOf(r_json) == DictGet(r_json, "responses", JNull)

IsMappingReply(r_json) ==
    /\ IsDict(r_json)
    /\ HasKey(r_json, "responses")
    /\ IsDict(ResponsesOf(r_json))

\* the record the specification asks for an entry: fields taken by presence
C5_Expected(k, v) ==
    IF IsDict(v)
    THEN ResultRecord(k,
            IF HasKey(v, "response") THEN DictGet(v, "response", JNull)
            ELSE IF HasKey(v, "text") THEN DictGet(v, "text", JNull)
            ELSE PyStr(v),
            IF HasKey(v, "latencyMs") THEN DictGet(v, "latencyMs", JNull)
            ELSE IF HasKey(v, "latency_ms") THEN DictGet(v, "latency_ms", JNull)
            ELSE JNum(0))
    ELSE ResultRecord(k, PyStr(v), JNum(0))

\* C5: when `responses` is a mapping, normalize_response returns one record
\* per entry, in entry order, with model = the key, response = the entry's
\* `response` field if present, else its `text` field if present, else the
\* stringified entry, and latencyMs = the `latencyMs` field if present, else
\* `latency_ms` if present, else 0 -- also for empty, zero, false or null
\* field values.
C5_MappingRecords ==
    (Normalized /\ IsMappingReply(resp_json)) =>
        LET m == ResponsesOf(resp_json).o IN
        /\ Len(items) = Len(m)
        /\ \A i \in 1..Len(m) : items[i] = C5_Expected(m[i].k, m[i].v)

\* C6 (as stated): every record normalize_response produces has a `response`
\* value that is a string.
C6_ResponseIsString ==
    Normalized =>
        \A i \in 1..Len(items) :
            (IsDict(items[i]) /\ HasKey(items[i], "response"))
                => IsStr(DictGet(items[i], "response", JNull))

\* C6 (amended): every text the rendering loop hands to st.markdown is a
\* string: the record's `response` value when that is a string, and its
\* json.dumps serialisation otherwise; one text per leading dict item.
C6_RenderedTextIsString ==
    (pc = "rendered") =>
        /\ Len(rendered) <= Len(items)
        /\ \A i \in 1..Len(items) :
              (\A j \in 1..i : IsDict(items[j])) => i <= Len(rendered)
        /\ \A i \in 1..Len(rendered) :
              LET v == DictGet(items[i], "response", JStr(Lit(""))) IN
              /\ IsStr(rendered[i])
              /\ IsStr(v) => rendered[i] = v
              /\ ~IsStr(v) => rendered[i] = JsonDumps(v)

\* a record with a structured `response` value came out of normalize_response
\* and was rendered as a string
C6_Witness ==
    /\ pc = "rendered"
    /\ \E i \in 1..Len(rendered) :
          /\ HasKey(items[i], "response")
          /\ DictGet(items[i], "response", JNull) = SmallObj
          /\ rendered[i] = JStr(Dumps(SmallObj))

(***************************************************************************)
(* image_to_data_url (lines 143-154).  A filename is a sequence of         *)
(* characters, file content a sequence of bytes, and a data URL the        *)
(* sequence <<"data:", mime, ";base64,">> followed by the base64           *)
(* characters.                                                             *)
(***************************************************************************)
UpperCase == <<"A", "B", "C", "D", "E", "F", "G", "H", "I", "J", "K", "L", "M",
               "N", "O", "P", "Q", "R", "S", "T", "U", "V", "W", "X", "Y", "Z">>
LowerCase == <<"a", "b", "c", "d", "e", "f", "g", "h", "i", "j", "k", "l", "m",
               "n", "o", "p", "q", "r", "s", "t", "u", "v", "w", "x", "y", "z">>

\* str.lower()
LowerChar(c) ==
    IF \E i \in 1..26 : UpperCase[i] = c
    THEN LowerCase[CHOOSE i \in 1..26 : UpperCase[i] = c]
    ELSE c

Lower(s) == [i \in 1..Len(s) |-> LowerChar(s[i])]

RECURSIVE Split(_, _)
\* str.split(sep) for a one-character separator
Split(s, sep) ==
    IF \E i \in 1..Len(s) : s[i] = sep
    THEN LET i == CHOOSE j \in 1..Len(s) :
                     s[j] = sep /\ \A k \in 1..(j - 1) : s[k] # sep
         IN <<SubSeq(s, 1, i - 1)>> \o Split(SubSeq(s, i + 1, Len(s)), sep)
    ELSE <<s>>

\* line 145 without .lower()
FileExtCaseSensitive(filename) ==
    IF \E i \in 1..Len(filename) : filename[i] = "."
    THEN LET parts == Split(filename, ".") IN parts[Len(parts)]
    ELSE <<"p", "n", "g">>

\* line 145: filename.split(".")[-1].lower() if "." in filename else "png"
FileExt(filename) ==
    IF \E i \in 1..Len(filename) : filename[i] = "."
    THEN LET parts == Split(filename, ".") IN Lower(parts[Len(parts)])
    ELSE <<"p", "n", "g">>

\* lines 146-152
MimeOf(ext) ==
    IF ext \in {<<"j", "p", "g">>, <<"j", "p", "e", "g">>} THEN "image/jpeg"
    ELSE IF ext = <<"g", "i", "f">> THEN "image/gif"
    ELSE IF ext = <<"w", "e", "b", "p">> THEN "image/webp"
    ELSE "image/png"

B64Chars ==
    UpperCase \o LowerCase \o
    <<"0", "1", "2", "3", "4", "5", "6", "7", "8", "9", "+", "/">>

\* the base64 character of the 6 bits of n above divisor d
B64Char(n, d) == B64Chars[((n \div d) % 64) + 1]

RECURSIVE B64Encode(_)
\* base64.b64encode(file_bytes).decode("utf-8")
B64Encode(b) ==
    IF Len(b) = 0 THEN <<>>
    ELSE IF Len(b) = 1 THEN
        LET n == b[1] * 65536 IN
        <<B64Char(n, 262144), B64Char(n, 4096), "=", "=">>
    ELSE IF Len(b) = 2 THEN
        LET n == b[1] * 65536 + b[2] * 256 IN
        <<B64Char(n, 262144), B64Char(n, 4096),
          B64Char(n, 64), "=">>
    ELSE
        LET n == b[1] * 65536 + b[2] * 256 + b[3] IN
        <<B64Char(n, 262144), B64Char(n, 4096),
          B64Char(n, 64), B64Char(n, 1)>>
        \o B64Encode(SubSeq(b, 4, Len(b)))

image_to_data_url(file_bytes, filename) ==
    <<"data:", MimeOf(FileExt(filename)), ";base64,">> \o B64Encode(file_bytes)

(***************************************************************************)
(* SpecUrl: image_to_data_url on every file of a bounded set.              *)
(***************************************************************************)
FileNames ==
    {<<"p", "h", "o", "t", "o", ".", "J", "P", "G">>,
     <<"a", ".", "j", "p", "g">>,
     <<"a", ".", "j", "p", "e", "g">>,
     <<"a", ".", "J", "p", "E", "g">>,
     <<"a", ".", "g", "i", "f">>,
     <<"a", ".", "G", "I", "F">>,
     <<"a", ".", "w", "e", "b", "p">>,
     <<"a", ".", "W", "e", "b", "P">>,
     <<"a", ".", "p", "n", "g">>,
     <<"a", ".", "t", "x", "t">>,
     <<"a", ".", "j", "p", "g", "x">>,
     <<"a", ".", "j", "p", "g", ".", "t", "x", "t">>,
     <<"a", ".", "t", "x", "t", ".", "g", "i", "f">>,
     <<"g", "i", "f">>,
     <<"j", "p", "g", ".">>,
     <<".", "w", "e", "b", "p">>,
     <<"n", "o", "e", "x", "t">>}

ByteVals == {77, 97, 110}

File(name, bytes) == [name |-> name, bytes |-> bytes]

Files == {File(n, b) : n \in FileNames, b \in SeqsUpTo(ByteVals, MaxFileLen)}

InitUrl ==
    /\ mdl = DefaultChecked
    /\ input_type = "image"
    /\ prompt_text = <<>>
    /\ sidebar_upload \in Files
    /\ pc = "file"
    /\ resp_json = None
    /\ IdleRun

Encode ==
    /\ pc = "file"
    /\ data_url' = image_to_data_url(sidebar_upload.bytes, sidebar_upload.name)
    /\ pc' = "encoded"
    /\ UNCHANGED <<formVars, posts, resp, status, results_box, warnings, normCalls,
                   resp_json, items, rendered>>

NextUrl == Encode

SpecUrl == InitUrl /\ [][NextUrl]_vars

\* the characters after the last "." of a name that has one
C10_Suffix(name) ==
    LET last == CHOOSE i \in 1..Len(name) :
                    name[i] = "." /\ \A j \in (i + 1)..Len(name) : name[j] # "."
    IN SubSeq(name, last + 1, Len(name))

C10_SameLetters(a, b) ==
    /\ Len(a) = Len(b)
    /\ \A i \in 1..Len(a) :
          \/ a[i] = b[i]
          \/ \E k \in 1..26 : {a[i], b[i]} = {UpperCase[k], LowerCase[k]}

C10_ExpectedMime(name) ==
    IF ~(\E i \in 1..Len(name) : name[i] = ".") THEN "image/png"
    ELSE LET e == C10_Suffix(name) IN
         IF C10_SameLetters(e, <<"j", "p", "g">>)
            \/ C10_SameLetters(e, <<"j", "p", "e", "g">>) THEN "image/jpeg"
         ELSE IF C10_SameLetters(e, <<"g", "i", "f">>) THEN "image/gif"
         ELSE IF C10_SameLetters(e, <<"w", "e", "b", "p">>) THEN "image/webp"
         ELSE "image/png"

\* C10: the MIME type is chosen from the text after the last dot of the
\* filename, compared case-insensitively (jpg, jpeg -> image/jpeg; gif ->
\* image/gif; webp -> image/webp; anything else or no dot -> image/png), and
\* the result begins with data:<mime>;base64, followed by the base64 text.
C10_MimeFromExtension ==
    (pc = "encoded") =>
        /\ Len(data_url) = 3 + 4 * ((Len(sidebar_upload.bytes) + 2) \div 3)
        /\ SubSeq(data_url, 1, 3) =
              <<"data:", C10_ExpectedMime(sidebar_upload.name), ";base64,">>

\* photo.JPG was encoded as image/jpeg
C10_Witness ==
    /\ pc = "encoded"
    /\ sidebar_upload.name = <<"p", "h", "o", "t", "o", ".", "J", "P", "G">>
    /\ sidebar_upload.bytes = <<77, 97>>
    /\ data_url = <<"data:", "image/jpeg", ";base64,", "T", "W", "E", "=">>

(***************************************************************************)
(* The script: sidebar state (lines 58-94) and the run logic (177-264).    *)
(***************************************************************************)
AVAILABLE_MODELS == <<"gpt4o", "gpt4o-mini", "whisper", "gpt4o-vision">>

JsonTimeout == 120
MultipartTimeout == 180

\* lines 62-69: the checked ids, in catalogue order
CheckedModels(m) == SelectSeq(AVAILABLE_MODELS, LAMBDA id : m[id])

\* lines 72-75 without the default
SelectedModelsNoDefault(m) == CheckedModels(m)

\* lines 62-75: selected_models as the run logic sees it
SelectedModels(m) ==
    IF CheckedModels(m) = <<>> THEN <<"gpt4o">> ELSE CheckedModels(m)

\* line 74: st.session_state["mdl_gpt4o"] = True when nothing is checked
SessionAfterDefault(m) ==
    IF CheckedModels(m) = <<>> THEN [m EXCEPT !["gpt4o"] = TRUE] ELSE m

\* lines 85-87: uploaded_file
UploadedFile(it, widget) == IF it \in {"image", "audio"} THEN widget ELSE None

\* `if prompt_text:` -- a string is a sequence, empty when falsy
NonEmpty(str) == Len(str) > 0

\* a requests.post(url, json=payload, timeout=120) call
JsonPost(payload) == [kind |-> "json", json |-> payload, timeout |-> JsonTimeout]

\* line 127: the payload send_json builds
SendJsonPayload(prompt, models, inputType) ==
    [prompt |-> prompt, models |-> models, inputType |-> inputType]

\* lines 209-212 with the annotation put in `prompt`
ImagePayloadAnnotationAsPrompt(url, models, inputType, annotation) ==
    IF NonEmpty(annotation)
    THEN [prompt |-> annotation, models |-> models, inputType |-> inputType,
          prompt_text |-> annotation]
    ELSE [prompt |-> url, models |-> models, inputType |-> inputType]

\* lines 209-212: the payload of the image branch
ImagePayload(url, models, inputType, annotation) ==
    IF NonEmpty(annotation)
    THEN [prompt |-> url, models |-> models, inputType |-> inputType,
          prompt_text |-> annotation]
    ELSE [prompt |-> url, models |-> models, inputType |-> inputType]

\* lines 134-138 with only `prompt_text` added
MultipartDataOneField(models, inputType, prompt_txt) ==
    IF prompt_txt # None /\ NonEmpty(prompt_txt.s)
    THEN [models |-> [dumps |-> models], inputType |-> inputType,
          prompt_text |-> prompt_txt.s]
    ELSE [models |-> [dumps |-> models], inputType |-> inputType]

\* lines 134-138: the form fields of send_multipart; prompt_txt is None or
\* a string [s |-> ...]
MultipartData(models, inputType, prompt_txt) ==
    IF prompt_txt # None /\ NonEmpty(prompt_txt.s)
    THEN [models |-> [dumps |-> models], inputType |-> inputType,
          prompt |-> prompt_txt.s, prompt_text |-> prompt_txt.s]
    ELSE [models |-> [dumps |-> models], inputType |-> inputType]

\* lines 133, 140: the call send_multipart makes
MultipartPost(file_bytes, filename, models, inputType, prompt_txt) ==
    [kind    |-> "multipart",
     files   |-> [prompt |-> [filename |-> filename, content |-> file_bytes]],
     data    |-> MultipartData(models, inputType, prompt_txt),
     timeout |-> MultipartTimeout]

\* lines 189, 200 with the test made in the image branch only
MissingFileImageOnly(it, uf) == it = "image" /\ uf = None

\* lines 189, 200: `if uploaded_file is None` of the audio and image branches
MissingFile(it, uf) == it \in {"audio", "image"} /\ uf = None

\* line 226 with the lower limit dropped
IsSuccessNoLowerLimit(code) == code < 300

\* line 226: 200 <= resp.status_code < 300
IsSuccess(code) == 200 <= code /\ code < 300

\* lines 227-230: resp.json(), or {"raw": resp.text} when that raises
ParseBody(text) ==
    IF "json" \in DOMAIN text THEN text.json
    ELSE JObj(<<KV("raw", JStr(Lit(text.raw)))>>)

\* what a run leaves behind
RunOutcome(p, r, st, box, w, n, body, its, texts, url) ==
    [posts |-> p, resp |-> r, status |-> st, results_box |-> box, warnings |-> w,
     normCalls |-> n, resp_json |-> body, items |-> its, rendered |-> texts,
     data_url |-> url]

\* lines 262-264: the generic handler
RequestFailed(p, r, n, body, its, texts, url, exc) ==
    RunOutcome(p, r, Banner("Request failed"),
               [kind |-> "text", text |-> [exc |-> exc]], <<>>, n, body, its, texts, url)

\* lines 187-193, 198-204, 259-261: the report of a missing file
NoFile(it) ==
    RunOutcome(<<>>, None, Banner("No file"),
               [kind |-> "text",
                text |-> [msg |-> IF it = "audio"
                                  THEN "Upload an audio file in the sidebar."
                                  ELSE "Upload an image in the sidebar or switch to text mode."]],
               <<IF it = "audio"
                 THEN "No audio file uploaded"
                 ELSE "No image uploaded">>,
               0, None, <<>>, <<>>, <<>>)

\* lines 225-257: the handling of the response `r` after the calls `p`
HandleResponse(p, r, url) ==
    IF IsSuccess(r.status_code)
    THEN LET body == ParseBody(r.text)
             its  == normalize_response(body)
             out  == RenderItems(its)
         IN IF out.raised
            THEN RequestFailed(p, r, 1, body, its, out.texts, url, "AttributeError")
            ELSE RunOutcome(p, r, Banner("Success"),
                            [kind |-> "html", cards |-> out.cards], <<>>, 1, body,
                            its, out.texts, url)
    ELSE RunOutcome(p, r, [kind |-> "Error", code |-> r.status_code],
                    [kind |-> "text", text |-> r.text], <<>>, 0, None, <<>>, <<>>, url)

\* one requests.post call `req` with outcome `o`, then the response handling
PostOnce(req, o, url) ==
    IF o.kind = "raise"
    THEN RequestFailed(<<req>>, None, 0, None, <<>>, <<>>, url, o.exc)
    ELSE HandleResponse(<<req>>, [status_code |-> o.status_code, text |-> o.text], url)

\* lines 213 and 218: the image branch calls requests.post in the tuple of
\* line 213 (the `else` arm of `... if False else ...`) and again at line
\* 218; `resp` is the second call's response
PostImage(req, o1, o2, url) ==
    IF o1.kind = "raise"
    THEN RequestFailed(<<req>>, None, 0, None, <<>>, <<>>, url, o1.exc)
    ELSE IF o2.kind = "raise"
    THEN RequestFailed(<<req, req>>, None, 0, None, <<>>, <<>>, url, o2.exc)
    ELSE HandleResponse(<<req, req>>,
                        [status_code |-> o2.status_code, text |-> o2.text], url)

\* lines 181-264
RunLogic(it, uf, annotation, models, o1, o2) ==
    IF it = "text" /\ uf = None
    THEN PostOnce(JsonPost(SendJsonPayload(annotation, models, it)), o1, <<>>)
    ELSE IF it = "audio"
    THEN IF MissingFile(it, uf) THEN NoFile(it)
         ELSE IF uf = None
         THEN RequestFailed(<<>>, None, 0, None, <<>>, <<>>, <<>>, "AttributeError")
         ELSE PostOnce(MultipartPost(uf.bytes, uf.name, models, it,
                                     IF NonEmpty(annotation)
                                     THEN [s |-> annotation] ELSE None),
                       o1, <<>>)
    ELSE IF it = "image"
    THEN IF MissingFile(it, uf) THEN NoFile(it)
         ELSE IF uf = None
         THEN RequestFailed(<<>>, None, 0, None, <<>>, <<>>, <<>>, "AttributeError")
         ELSE LET url == image_to_data_url(uf.bytes, uf.name) IN
              PostImage(JsonPost(ImagePayload(url, models, it, annotation)), o1, o2, url)
    ELSE PostOnce(JsonPost(SendJsonPayload(annotation, models, it)), o1, <<>>)

(***************************************************************************)
(* The environment: what the user enters and what the webhook answers.     *)
(***************************************************************************)
Prompts == {<<>>, <<"describe this">>}

RunFiles ==
    {File(<<"p", "h", "o", "t", "o", ".", "J", "P", "G">>, <<77, 97, 110>>),
     File(<<"n", "o", "e", "x", "t">>, <<>>)}

StatusCodes == {199, 200, 299, 300}

RunReplies ==
    {JStr(Lit("plain string")),
     JObj(<<KV("foo", JStr(Lit("bar")))>>),
     JObj(<<KV("responses", JArr(<<>>))>>),
     JObj(<<KV("responses", JArr(<<ResultRecord("a", JStr(Lit("x")), JNum(5))>>))>>),
     JObj(<<KV("responses", JArr(<<ResultRecord("b", SmallObj, JNum(0)), JNum(7)>>))>>),
     JObj(<<KV("responses", JObj(<<>>))>>),
     JObj(<<KV("responses", JObj(<<KV("a", JObj(<<KV("text", JStr(Lit("hi")))>>))>>))>>),
     JObj(<<KV("responses",
               JObj(<<KV("a", JObj(<<KV("response", JStr(Lit(""))),
                                     KV("latency_ms", JNum(9))>>)),
                      KV("b", JObj(<<KV("response", SmallObj)>>))>>))>>)}

BodyTexts == {[json |-> v] : v \in RunReplies} \cup {[raw |-> "<html>oops</html>"], [raw |-> ""]}

TransportError == [kind |-> "raise", exc |-> "ConnectionError"]

Outcomes ==
    {TransportError} \cup
    {[kind |-> "resp", status_code |-> c, text |-> b] : c \in StatusCodes, b \in BodyTexts}

\* the outcomes of the image branch's first call: its response is replaced
\* at line 218 before anything reads it
FirstOutcomes ==
    {TransportError} \cup
    {[kind |-> "resp", status_code |-> c, text |-> [raw |-> ""]] : c \in {200, 300}}

Init ==
    /\ mdl = DefaultChecked
    /\ input_type = "text"
    /\ prompt_text = <<>>
    /\ sidebar_upload = None
    /\ pc = "idle"
    /\ resp_json = None
    /\ IdleRun

\* a rerun of the script with run = False: the placeholders are empty again,
\* and line 74 is executed when the rerun gets that far before the next
\* widget event abandons it
Rerun(m, reached) ==
    /\ mdl' = IF reached THEN SessionAfterDefault(m) ELSE m
    /\ pc' = "idle"
    /\ posts' = <<>>
    /\ resp' = None
    /\ status' = Banner("idle")
    /\ results_box' = [kind |-> "empty"]
    /\ warnings' = <<>>
    /\ normCalls' = 0
    /\ resp_json' = None
    /\ items' = <<>>
    /\ rendered' = <<>>
    /\ data_url' = <<>>

\* line 67: a model checkbox is clicked
ToggleModel(id, reached) ==
    /\ Rerun([mdl EXCEPT ![id] = ~@], reached)
    /\ UNCHANGED <<input_type, prompt_text, sidebar_upload>>

\* line 79: the input type radio
SetInputType(it, reached) ==
    /\ it # input_type
    /\ input_type' = it
    /\ Rerun(mdl, reached)
    /\ UNCHANGED <<prompt_text, sidebar_upload>>

\* line 83: the prompt text area
SetPrompt(p, reached) ==
    /\ p # prompt_text
    /\ prompt_text' = p
    /\ Rerun(mdl, reached)
    /\ UNCHANGED <<input_type, sidebar_upload>>

\* line 87: the uploader, shown for image and audio only; f = None removes
\* the file
Upload(f, reached) ==
    /\ input_type \in {"image", "audio"}
    /\ f # sidebar_upload
    /\ sidebar_upload' = f
    /\ Rerun(mdl, reached)
    /\ UNCHANGED <<input_type, prompt_text>>

\* line 92: the run button; the script runs from the top with run = True
Run(o1, o2) ==
    \E out \in {RunLogic(input_type, UploadedFile(input_type, sidebar_upload),
                         prompt_text, SelectedModels(mdl), o1, o2)} :
       /\ mdl' = SessionAfterDefault(mdl)
       /\ pc' = "done"
       /\ posts' = out.posts
       /\ resp' = out.resp
       /\ status' = out.status
       /\ results_box' = out.results_box
       /\ warnings' = out.warnings
       /\ normCalls' = out.normCalls
       /\ resp_json' = out.resp_json
       /\ items' = out.items
       /\ rendered' = out.rendered
       /\ data_url' = out.data_url
       /\ UNCHANGED <<input_type, prompt_text, sidebar_upload>>

TwoCalls == input_type = "image" /\ sidebar_upload # None

Next ==
    \/ \E id \in DOMAIN mdl, reached \in BOOLEAN : ToggleModel(id, reached)
    \/ \E it \in {"text", "image", "audio"}, reached \in BOOLEAN : SetInputType(it, reached)
    \/ \E p \in Prompts, reached \in BOOLEAN : SetPrompt(p, reached)
    \/ \E f \in RunFiles \cup {None}, reached \in BOOLEAN : Upload(f, reached)
    \/ \E o1 \in (IF TwoCalls THEN FirstOutcomes ELSE Outcomes) :
         \E o2 \in (IF TwoCalls THEN Outcomes ELSE {o1}) : Run(o1, o2)

Spec == Init /\ [][Next]_vars

(***************************************************************************)
(* Properties of the run logic (Spec).  After a run (pc = "done") the      *)
(* sidebar state is the one the run read: Run leaves it unchanged and      *)
(* every widget event starts a new rerun.                                  *)
(***************************************************************************)
Submitted == pc = "done"

FileMissing == input_type \in {"image", "audio"} /\ sidebar_upload = None

\* C1: a submit issues at most one HTTP POST, whatever its kind and outcome,
\* and exactly one when it passes the missing-file check.
C1_AtMostOnePost ==
    Submitted =>
        /\ Len(posts) <= 1
        /\ ~FileMissing => Len(posts) = 1

\* C2: an image or audio submit without a file sends no request, does not
\* invoke the normalizer, shows the "No file" report and does not reach the
\* "Request failed" handler.
C2_MissingFileRejected ==
    (Submitted /\ FileMissing) =>
        /\ posts = <<>>
        /\ resp = None
        /\ normCalls = 0
        /\ status = Banner("No file")
        /\ status # Banner("Request failed")
        /\ Len(warnings) = 1
        /\ results_box.kind = "text"
        /\ "msg" \in DOMAIN results_box.text

\* an audio submit without a file ended with the "No file" report
C2_Witness ==
    /\ Submitted
    /\ input_type = "audio"
    /\ sidebar_upload = None
    /\ status = Banner("No file")

C7_CatalogueIndex(id) == CHOOSE i \in 1..Len(AVAILABLE_MODELS) : AVAILABLE_MODELS[i] = id

\* s is the effective selection of the checkbox state m
C7_IsEffective(s, m) ==
    LET checked == {id \in DOMAIN m : m[id]} IN
    /\ Len(s) > 0
    /\ IF checked = {} THEN s = <<"gpt4o">>
       ELSE /\ Len(s) = Cardinality(checked)
            /\ {s[i] : i \in 1..Len(s)} = checked
            /\ \A i, j \in 1..Len(s) :
                  i < j => C7_CatalogueIndex(s[i]) < C7_CatalogueIndex(s[j])

\* the `models` value a request carries (JSON-encoded in a multipart form)
C7_ModelsOf(req) ==
    IF req.kind = "json" THEN req.json.models ELSE req.data.models.dumps

\* C7: the `models` value of every request a submit sends is non-empty and
\* is the effective selection at submit time: the checked ids in catalogue
\* order, or <<"gpt4o">> when none is checked; a text submit sends a JSON
\* body whose inputType is "text".
C7_ModelsAreEffectiveSelection ==
    [][\A i \in 1..Len(posts') :
          /\ C7_IsEffective(C7_ModelsOf(posts'[i]), mdl)
          /\ input_type = "text" =>
                /\ posts'[i].kind = "json"
                /\ posts'[i].json.inputType = "text"
                /\ posts'[i].json.prompt = prompt_text]_vars

\* a text submit carried two checked models in catalogue order
C7_Witness ==
    /\ Submitted
    /\ input_type = "text"
    /\ Len(posts) = 1
    /\ posts[1].kind = "json"
    /\ posts[1].json.models = <<"gpt4o-mini", "gpt4o-vision">>
    /\ posts[1].json.inputType = "text"

ImageSubmitted == Submitted /\ input_type = "image" /\ sidebar_upload # None

\* C8: every request of an image submit with a file is a JSON body whose
\* `prompt` is the file's data URL, never the annotation, whose inputType
\* is "image", and which has a `prompt_text` field, holding the annotation,
\* exactly when the annotation is non-empty.
C8_ImageBody ==
    ImageSubmitted =>
        /\ Len(posts) >= 1
        /\ \A i \in 1..Len(posts) :
              /\ posts[i].kind = "json"
              /\ posts[i].json.prompt =
                    image_to_data_url(sidebar_upload.bytes, sidebar_upload.name)
              /\ posts[i].json.prompt # prompt_text
              /\ posts[i].json.inputType = "image"
              /\ ("prompt_text" \in DOMAIN posts[i].json) <=> (prompt_text # <<>>)
              /\ prompt_text # <<>> => posts[i].json.prompt_text = prompt_text

\* an annotated image was sent
C8_Witness ==
    /\ ImageSubmitted
    /\ prompt_text = <<"describe this">>
    /\ Len(posts) >= 1
    /\ posts[1].json.prompt_text = <<"describe this">>
    /\ posts[1].json.prompt[2] = "image/jpeg"

AudioSubmitted == Submitted /\ input_type = "audio" /\ sidebar_upload # None

\* C9: an audio submit with a file sends a multipart request with a binary
\* part named `prompt` (the raw bytes under the original filename), form
\* fields `models` (a JSON-encoded array) and inputType = "audio", and the
\* form fields `prompt` and `prompt_text` both holding the annotation when
\* it is non-empty, neither of them when it is empty.
C9_AudioMultipart ==
    AudioSubmitted =>
        /\ Len(posts) = 1
        /\ posts[1].kind = "multipart"
        /\ posts[1].files =
              [prompt |-> [filename |-> sidebar_upload.name,
                           content  |-> sidebar_upload.bytes]]
        /\ DOMAIN posts[1].data.models = {"dumps"}
        /\ Len(posts[1].data.models.dumps) > 0
        /\ posts[1].data.inputType = "audio"
        /\ prompt_text # <<>> =>
              /\ DOMAIN posts[1].data = {"models", "inputType", "prompt", "prompt_text"}
              /\ posts[1].data.prompt = prompt_text
              /\ posts[1].data.prompt_text = prompt_text
        /\ prompt_text = <<>> =>
              DOMAIN posts[1].data = {"models", "inputType"}

\* an annotated audio file was sent
C9_Witness ==
    /\ AudioSubmitted
    /\ prompt_text = <<"describe this">>
    /\ posts[1].data.prompt = <<"describe this">>
    /\ posts[1].files.prompt.content = <<77, 97, 110>>
====
